---- MODULE Spec2Model ----
(***************************************************************************)
(* Model of the Curiosity chat orchestrator (class Curiosity, the          *)
(* iteration with a message history and the [TOOL_REQUEST] envelope) and   *)
(* of its tools (CuriosityTool / ActionTool / QueryTool).                   *)
(*                                                                         *)
(* Text is a sequence of tokens.  A token is a string standing for a run   *)
(* of characters of the real text: the two delimiters, one whitespace      *)
(* character, a word of prose, or one complete JSON literal.               *)
(*                                                                         *)
(* Every action is one run-to-completion step of the JavaScript event      *)
(* loop: the code between two awaits of one handleSendMessage invocation.  *)
(* The operator's typing is part of the step that next reads the input     *)
(* field (a click, or the re-submission of a query result): no other step  *)
(* reads or writes the field.                                              *)
(***************************************************************************)
EXTENDS Naturals, Sequences, FiniteSets, TLC

VARIABLES
  tools,              \* Curiosity.tools: registered tools, registration order
  toolsPrompt,        \* Curiosity.#toolsPrompt: accumulated tool descriptors
  systemPromptField,  \* Curiosity.#systemPrompt: set by the constructor
  aiBackend,          \* Curiosity.aiBackend: the backend registered, or Null
  messages,           \* Curiosity.messages: the conversation history
  inputValue,         \* Curiosity.input.value: the text in the input field
  messagesContainer,  \* children of Curiosity.messagesContainer, in order
  nextEl,             \* identity of the next DOM element created
  flows,              \* the handleSendMessage invocations started by the operator
  calls,              \* every aiBackend.streamMessage call: the history it was given
  execs,              \* every tool.execute call: the tool and the arguments
  console,            \* the line the last step wrote to the console, "" if none
  isReasoning,        \* DeepSeekReasoningSeparator.#isReasoning
  completeResponse,   \* DeepSeekReasoningSeparator.#completeResponse
  call                \* the last processChatResponse call: the content it was
                      \* given, the content it left in its argument, its result

vars == <<tools, toolsPrompt, systemPromptField, aiBackend, messages, inputValue,
          messagesContainer, nextEl, flows, calls, execs, console>>

\* the state of a DeepSeekReasoningSeparator, which the chat does not use
sepVars == <<isReasoning, completeResponse, call>>

---------------------------------------------------------------------------
(* Bounds of the model.                                                    *)

\* operator clicks with non-empty input
MaxSubmits == 2
\* aiBackend.streamMessage calls in one run (the code has no bound on the
\* query recursion)
MaxCalls == 2
\* tokens delivered by one fragment of a stream
MaxFragLen == 2
\* pieces of text in the delta of one response chunk
MaxChunkLen == 3
\* pieces of text the separator accumulates without meeting '</think>'
MaxAccumulated == 3

---------------------------------------------------------------------------
(* Tokens and texts.                                                       *)

OPEN  == "[TOOL_REQUEST]"
CLOSE == "[END_TOOL_REQUEST]"
WS    == " "

\* The tools an application may construct: two names, either kind, with or
\* without declared arguments; the third has the name of the second.
ToolCatalog ==
  { [name |-> "doQuery",  description |-> "Performs a query",   arguments |-> "undefined",
     type |-> "Query"],
    [name |-> "doAction", description |-> "Performs an action",
     arguments |-> "{\"payload\":\"what to act on\"}",
     type |-> "Action"],
    [name |-> "doAction", description |-> "Another action",     arguments |-> "undefined",
     type |-> "Query"] }

\* The tool of the README's Quick Start.
changeColorTool ==
  [name |-> "changeBackgroundColor",
   description |-> "Changes the background color of the page body.",
   arguments |-> "undefined", type |-> "Action"]

\* What the operator may type into the input field.
Inputs == { <<WS>>, <<WS, "hello", WS>> }

\* What a QueryTool's query may return.
QueryResults == { "some data", "" }

\* options.systemPrompt of the constructor ("" is: not given)
PromptOptions == { "" }

\* `null`
Null == "null"

\* The backends an application may register: the mock of the tests and of
\* the Quick Start, and one that probes the extractor.
mockAIBackend == "mockAIBackend"
probeBackend  == "probeBackend"

Last(s) == s[Len(s)]

SeqToSet(s) == { s[i] : i \in 1..Len(s) }

---------------------------------------------------------------------------
(* Strings.                                                                *)

\* String.prototype.includes, for a delimiter
includes(text, tok) == \E i \in 1..Len(text) : text[i] = tok

RECURSIVE trimStart(_)
trimStart(s) == IF s # <<>> /\ Head(s) = WS THEN trimStart(Tail(s)) ELSE s

RECURSIVE trimEnd(_)
trimEnd(s) == IF s # <<>> /\ Last(s) = WS THEN trimEnd(SubSeq(s, 1, Len(s) - 1)) ELSE s

\* a faulty trim that removes nothing
trimNone(s) == s

\* String.prototype.trim
trim(s) == trimEnd(trimStart(s))

---------------------------------------------------------------------------
(* JSON.                                                                   *)

\* the value of an absent property or argument
Undefined == [undefined |-> TRUE]

\* JSON literals a backend may write between the delimiters
JQuery    == "{\"toolUse\":true,\"toolName\":\"doQuery\",\"args\":{\"query\":\"info\"}}"
JAction   == "{\"toolUse\":true,\"toolName\":\"doAction\",\"args\":{\"payload\":\"test\"}}"
JNoArgs   == "{\"toolUse\":true,\"toolName\":\"doQuery\"}"
JUnknown  == "{\"toolUse\":true,\"toolName\":\"nonExistentTool\",\"args\":{}}"
JUseFalse == "{\"toolUse\":false,\"toolName\":\"doAction\"}"
JNoName   == "{\"toolUse\":true}"
JNoUse    == "{\"toolName\":\"doAction\"}"
JSentinel == "{\"toolUse\":true,\"toolName\":\"doAction\",\"toolCallFailed\":true}"
JColor    == "{\"toolUse\":true,\"toolName\":\"changeBackgroundColor\",\"args\":{\"color\":\"lightblue\"}}"
JNull     == "null"
JArray    == "[]"
JString   == "\"doQuery\""
JDigit    == "7"

JSONLiterals == { JQuery, JAction, JNoArgs, JUnknown, JUseFalse, JNoName, JNoUse, JSentinel,
                  JColor, JNull, JArray, JString, JDigit }

\* a decoded value: its type, its keys, and the values of toolUse, toolName
\* and args ("undefined" where absent)
JSONvalue(type, keys, toolName, args) ==
  [type |-> type, keys |-> keys, toolName |-> toolName, args |-> args,
   toolUse |-> IF "toolUse" \in keys THEN "true" ELSE "undefined"]

\* the value JSON.parse gives for one literal
JSONliteral(tok) ==
  CASE tok = JQuery    -> JSONvalue("object", {"toolUse", "toolName", "args"}, "doQuery",
                                    [query |-> "info"])
    [] tok = JAction   -> JSONvalue("object", {"toolUse", "toolName", "args"}, "doAction",
                                    [payload |-> "test"])
    [] tok = JNoArgs   -> JSONvalue("object", {"toolUse", "toolName"}, "doQuery", Undefined)
    [] tok = JUnknown  -> JSONvalue("object", {"toolUse", "toolName", "args"},
                                    "nonExistentTool", [empty |-> TRUE])
    [] tok = JUseFalse -> [JSONvalue("object", {"toolUse", "toolName"}, "doAction", Undefined)
                             EXCEPT !.toolUse = "false"]
    [] tok = JNoName   -> JSONvalue("object", {"toolUse"}, "undefined", Undefined)
    [] tok = JNoUse    -> JSONvalue("object", {"toolName"}, "doAction", Undefined)
    [] tok = JSentinel -> JSONvalue("object", {"toolUse", "toolName", "toolCallFailed"},
                                    "doAction", Undefined)
    [] tok = JColor    -> JSONvalue("object", {"toolUse", "toolName", "args"},
                                    "changeBackgroundColor", [color |-> "lightblue"])
    [] tok = JNull     -> JSONvalue("null", {}, "undefined", Undefined)
    [] tok = JArray    -> JSONvalue("array", {}, "undefined", Undefined)
    [] tok = JString   -> JSONvalue("string", {}, "undefined", Undefined)
    [] OTHER           -> JSONvalue("number", {}, "undefined", Undefined)

\* JSON.parse: ok is FALSE where it throws.  Whitespace around the one value
\* is allowed; adjacent digits are one number; anything else is a syntax error.
JSONparse(text) ==
  LET t == trim(text) IN
  IF Len(t) = 1 /\ t[1] \in JSONLiterals
    THEN [ok |-> TRUE, value |-> JSONliteral(t[1])]
  ELSE IF t # <<>> /\ \A i \in 1..Len(t) : t[i] = JDigit
    THEN [ok |-> TRUE, value |-> JSONliteral(JDigit)]
  ELSE [ok |-> FALSE, value |-> JSONliteral(JNull)]

\* typeof json: null and arrays are objects too
typeof(json) == IF json.type \in {"object", "array", "null"} THEN "object" ELSE json.type

\* whether a decoded value passes `json && ...` (no literal here is 0, "" or false)
truthy(json) == json.type # "null"

\* JSON.stringify of a string
JSONstringify(r) == "\"" \o r \o "\""

---------------------------------------------------------------------------
(* The tool-call extractor.                                                *)

\* a faulty pattern with a greedy group, which ends at the last closing delimiter
toolCallRegexGreedy(text) ==
  LET starts == { i \in 1..Len(text) :
                    text[i] = OPEN /\ \E j \in (i + 1)..Len(text) : text[j] = CLOSE }
  IN IF starts = {} THEN [found |-> FALSE, group |-> <<>>]
     ELSE LET i == CHOOSE a \in starts : \A b \in starts : a <= b
              j == CHOOSE a \in (i + 1)..Len(text) :
                     /\ text[a] = CLOSE
                     /\ \A b \in (a + 1)..Len(text) : text[b] # CLOSE
          IN [found |-> TRUE, group |-> SubSeq(text, i + 1, j - 1)]

\* text.match(/\[TOOL_REQUEST\](.*?)\[END_TOOL_REQUEST\]/s): the match starts
\* at the first opening delimiter that has a closing delimiter after it, and
\* the lazy group ends at the nearest closing delimiter.
toolCallRegex(text) ==
  LET starts == { i \in 1..Len(text) :
                    text[i] = OPEN /\ \E j \in (i + 1)..Len(text) : text[j] = CLOSE }
  IN IF starts = {} THEN [found |-> FALSE, group |-> <<>>]
     ELSE LET i == CHOOSE a \in starts : \A b \in starts : a <= b
              j == CHOOSE a \in (i + 1)..Len(text) :
                     /\ text[a] = CLOSE
                     /\ \A b \in (i + 1)..(a - 1) : text[b] # CLOSE
          IN [found |-> TRUE, group |-> SubSeq(text, i + 1, j - 1)]

\* the three shapes tryParseToolCall returns
NoToolCall == [isNull |-> TRUE, keys |-> {}, toolName |-> "undefined", args |-> Undefined]

\* a faulty catch block that returns null
ToolCallFailedAsNull == NoToolCall

ToolCallFailed ==
  [isNull |-> FALSE, keys |-> {"toolCallFailed"}, toolName |-> "undefined",
   args |-> Undefined]

ParsedToolCall(json) ==
  [isNull |-> FALSE, keys |-> json.keys, toolName |-> json.toolName, args |-> json.args]

\* a faulty extractor that looks for the opening delimiter only
tryParseToolCallOpenOnly(text) ==
  IF text = <<>> \/ ~includes(text, OPEN) THEN NoToolCall
  ELSE LET match == toolCallRegex(text) IN
    IF ~match.found THEN ToolCallFailed
    ELSE LET parsed == JSONparse(trim(match.group)) IN
      IF /\ parsed.ok
         /\ truthy(parsed.value)
         /\ typeof(parsed.value) = "object"
         /\ "toolUse" \in parsed.value.keys
         /\ "toolName" \in parsed.value.keys
        THEN ParsedToolCall(parsed.value)
        ELSE ToolCallFailed

\* a faulty extractor that also accepts a request without the delimiters
tryParseToolCallBare(text) ==
  LET match == toolCallRegex(text)
      inner == IF match.found THEN trim(match.group) ELSE trim(text)
      parsed == JSONparse(inner)
  IN IF inner = <<>> THEN NoToolCall
     ELSE IF /\ parsed.ok
             /\ truthy(parsed.value)
             /\ typeof(parsed.value) = "object"
             /\ "toolUse" \in parsed.value.keys
             /\ "toolName" \in parsed.value.keys
       THEN ParsedToolCall(parsed.value)
     ELSE IF match.found THEN ToolCallFailed
     ELSE NoToolCall

\* a faulty extractor without the test of an empty payload
tryParseToolCallNoBlankCheck(text) ==
  IF text = <<>> \/ ~includes(text, OPEN) \/ ~includes(text, CLOSE) THEN NoToolCall
  ELSE LET match == toolCallRegex(text) IN
    IF ~match.found THEN NoToolCall
    ELSE LET parsed == JSONparse(trim(match.group)) IN
      IF /\ parsed.ok
         /\ truthy(parsed.value)
         /\ typeof(parsed.value) = "object"
         /\ "toolUse" \in parsed.value.keys
         /\ "toolName" \in parsed.value.keys
        THEN ParsedToolCall(parsed.value)
        ELSE ToolCallFailed

\* a faulty extractor that returns null, and does not throw, for a decoded
\* value that is not a request
tryParseToolCallNoThrow(text) ==
  IF text = <<>> \/ ~includes(text, OPEN) \/ ~includes(text, CLOSE) THEN NoToolCall
  ELSE LET match == toolCallRegex(text) IN
    IF ~match.found THEN NoToolCall
    ELSE LET cleanedText == trim(match.group) IN
      IF cleanedText = <<>> THEN NoToolCall
      ELSE LET parsed == JSONparse(cleanedText) IN
        IF ~parsed.ok THEN ToolCallFailed
        ELSE IF /\ truthy(parsed.value)
                /\ typeof(parsed.value) = "object"
                /\ "toolUse" \in parsed.value.keys
                /\ "toolName" \in parsed.value.keys
          THEN ParsedToolCall(parsed.value)
          ELSE NoToolCall

\* a faulty extractor that returns a failure where the pattern does not match
tryParseToolCallNoMatchFails(text) ==
  IF text = <<>> \/ ~includes(text, OPEN) \/ ~includes(text, CLOSE) THEN NoToolCall
  ELSE LET match == toolCallRegex(text) IN
    IF ~match.found THEN ToolCallFailed
    ELSE LET cleanedText == trim(match.group) IN
      IF cleanedText = <<>> THEN NoToolCall
      ELSE LET parsed == JSONparse(cleanedText) IN
        IF /\ parsed.ok
           /\ truthy(parsed.value)
           /\ typeof(parsed.value) = "object"
           /\ "toolUse" \in parsed.value.keys
           /\ "toolName" \in parsed.value.keys
          THEN ParsedToolCall(parsed.value)
          ELSE ToolCallFailed

tryParseToolCall(text) ==
  IF text = <<>> \/ ~includes(text, OPEN) \/ ~includes(text, CLOSE) THEN NoToolCall
  ELSE LET match == toolCallRegex(text) IN
    IF ~match.found THEN NoToolCall
    ELSE LET cleanedText == trim(match.group) IN
      IF cleanedText = <<>> THEN NoToolCall
      ELSE LET parsed == JSONparse(cleanedText) IN
        IF /\ parsed.ok
           /\ truthy(parsed.value)
           /\ typeof(parsed.value) = "object"
           /\ "toolUse" \in parsed.value.keys
           /\ "toolName" \in parsed.value.keys
          THEN ParsedToolCall(parsed.value)
          ELSE ToolCallFailed

\* the branch handleSendMessage takes on the completed text
Classify(text) ==
  LET toolCall == tryParseToolCall(text) IN
  IF ~toolCall.isNull /\ "toolCallFailed" \in toolCall.keys THEN "Malformed"
  ELSE IF ~toolCall.isNull THEN "Request"
  ELSE "Plain"

---------------------------------------------------------------------------
(* The prompt builder.  The fixed texts are one token each; the timestamp  *)
(* of <today> is not modelled.                                             *)

ToolUsageSection == "<tool-usage>"
Today == "<today>"

\* a faulty getter that returns the section with no tool registered too
toolUsagePromptSectionAlways(ts) == <<ToolUsageSection>>

\* get toolUsagePromptSection
toolUsagePromptSection(ts) == IF Len(ts) = 0 THEN <<>> ELSE <<ToolUsageSection>>

\* the field initializer of #systemPrompt and the constructor's override
InitialSystemPrompt(option) ==
  <<"<system-prompt>"
      \o (IF option = "" THEN "You are a helpful assistant." ELSE option)
      \o "</system-prompt>">>
    \o toolUsagePromptSection(<<>>)

NameTag(name) == "<name>" \o name \o "</name>"

\* the toolDefinition registerTool appends to #toolsPrompt
toolDefinition(tool) ==
  << "<tool>", NameTag(tool.name),
     "<description>" \o tool.description \o "</description>",
     "<usage>", OPEN,
     IF tool.arguments # "undefined"
       THEN "{\"toolUse\":true,\"toolName\":\"" \o tool.name \o "\",\"args\":"
              \o tool.arguments \o "}"
       ELSE "{\"toolUse\":true,\"toolName\":\"" \o tool.name \o "\"}",
     CLOSE, "</usage>" >>

\* a faulty prompt that leaves the tool descriptors out
constructSystemPromptNoTools ==
  systemPromptField
    \o (IF Len(tools) > 0 THEN toolUsagePromptSection(tools) ELSE <<>>)
    \o <<Today>>

constructSystemPrompt ==
  systemPromptField
    \o (IF Len(tools) > 0 THEN toolUsagePromptSection(tools) \o toolsPrompt ELSE <<>>)
    \o <<Today>>

\* get systemPrompt
systemPrompt == constructSystemPrompt

---------------------------------------------------------------------------
(* The reasoning separator.  A text is a sequence of pieces; the two tags  *)
(* are two pieces each, so that a chunk may end in the middle of a tag.    *)

THINK    == <<"<th", "ink>">>
ENDTHINK == <<"</th", "ink>">>

Pieces == { "<th", "</th", "ink>", "Hi" }

\* String.prototype.includes, for a text
includesText(text, pattern) ==
  \E i \in 1..(Len(text) - Len(pattern) + 1) :
    SubSeq(text, i, i + Len(pattern) - 1) = pattern

\* response.choices[0].delta.content of a chunk
Contents == UNION { [1..n -> Pieces] : n \in 0..MaxChunkLen }

\* the responses a caller may pass: no choice, or one choice with a delta
DeepSeekResponses ==
  { [choices |-> <<>>] } \cup { [choices |-> <<[content |-> c]>>] : c \in Contents }

Call(given, content, reasoning, text) ==
  [given |-> given, content |-> content, isReasoning |-> reasoning, text |-> text]

\* before the first call
NoCall == Call(<<>>, <<>>, FALSE, <<>>)

---------------------------------------------------------------------------
(* The state.                                                              *)

\* What a backend may stream in answer to one call, as the whole text; the
\* stream delivers it in fragments.
Responses ==
  { <<>>,
    <<"Echo", OPEN>>,
    <<OPEN, "{oops", CLOSE>>,
    <<OPEN, WS, JQuery, CLOSE>>,
    <<"Sure", OPEN, JAction, CLOSE>>,
    <<OPEN, JUnknown, CLOSE>>,
    <<JColor>> }

\* What the probing backend may stream: delimiters around nothing, around
\* values that are not a request, and around more than one payload.
ProbeResponses ==
  { <<OPEN, WS, CLOSE>>,
    <<"Sure", OPEN, CLOSE, "done">>,
    <<OPEN, WS, CLOSE, OPEN, JAction, CLOSE>>,
    <<OPEN, JNull, CLOSE>>,
    <<OPEN, JDigit, CLOSE>>,
    <<OPEN, JString, CLOSE>>,
    <<OPEN, JArray, CLOSE>>,
    <<OPEN, JNoName, CLOSE>>,
    <<OPEN, JNoUse, WS, CLOSE>>,
    <<"Sure", OPEN, JAction, CLOSE, OPEN, JQuery, CLOSE, "done">>,
    <<CLOSE, OPEN, WS, JQuery, CLOSE, CLOSE>>,
    <<OPEN, JQuery, OPEN, CLOSE>>,
    <<OPEN, JUseFalse, CLOSE>>,
    <<OPEN, JSentinel, CLOSE>>,
    <<CLOSE, "Sure", OPEN>> }

\* aiBackend.streamMessage(messages): the texts the backend may stream
streamMessage(backend) == IF backend = probeBackend THEN ProbeResponses ELSE Responses

Element(id, class, text) ==
  [id |-> id, class |-> class, textContent |-> text, toolError |-> FALSE]

\* a handleSendMessage invocation and the handleToolCall it awaits:
\* fullResponse and aiMessageElement of the former, tool and args of the latter
Flow(pc, fullResponse, el, tool, args) ==
  [pc |-> pc, fullResponse |-> fullResponse, el |-> el, tool |-> tool, args |-> args]

FlowDone == Flow("done", <<>>, 0, 0, Undefined)

Init ==
  /\ tools = <<>>
  /\ toolsPrompt = <<>>
  /\ systemPromptField \in { InitialSystemPrompt(o) : o \in PromptOptions }
  /\ aiBackend = Null
  /\ messages = <<>>
  /\ inputValue = <<>>
  /\ messagesContainer = <<>>
  /\ nextEl = 1
  /\ flows = <<>>
  /\ calls = <<>>
  /\ execs = <<>>
  /\ console = ""
  /\ isReasoning = FALSE
  /\ completeResponse = <<>>
  /\ call = NoCall

NumSubmits == Cardinality({ i \in 1..Len(messagesContainer) :
                              messagesContainer[i].class = "user" })

---------------------------------------------------------------------------
(* The public methods.                                                     *)

registerAIBackend(backend) ==
  /\ aiBackend' = backend
  /\ console' = ""
  /\ UNCHANGED <<tools, toolsPrompt, systemPromptField, messages, inputValue,
                 messagesContainer, nextEl, flows, calls, execs>>

\* a faulty registerTool without the name check
registerToolNoCheck(tool) ==
  /\ tools' = Append(tools, tool)
  /\ toolsPrompt' = toolsPrompt \o toolDefinition(tool)
  /\ console' = ""
  /\ UNCHANGED <<systemPromptField, aiBackend, messages, inputValue, messagesContainer,
                 nextEl, flows, calls, execs>>

registerTool(tool) ==
  /\ IF \E i \in 1..Len(tools) : tools[i].name = tool.name
       THEN /\ console' = "Curiosity Warning: A tool with the name \"" \o tool.name
                             \o "\" is already registered."
            /\ UNCHANGED <<tools, toolsPrompt>>
       ELSE /\ tools' = Append(tools, tool)
            /\ toolsPrompt' = toolsPrompt \o toolDefinition(tool)
            /\ console' = ""
  /\ UNCHANGED <<systemPromptField, aiBackend, messages, inputValue, messagesContainer,
                 nextEl, flows, calls, execs>>

---------------------------------------------------------------------------
(* The DOM.                                                                *)

\* displayMessage
displayMessage(container, id, text, sender) == Append(container, Element(id, sender, text))

\* createStreamedMessageElement
createStreamedMessageElement(container, id) == Append(container, Element(id, "assistant", <<>>))

\* aiMessageElement.textContent = text (and classList.add of the error class)
setTextContent(container, id, text, toolError) ==
  [i \in 1..Len(container) |->
     IF container[i].id = id
       THEN [container[i] EXCEPT !.textContent = text, !.toolError = @ \/ toolError]
       ELSE container[i]]

\* a faulty removal that takes the last child of the container
removeLast(container, id) == SubSeq(container, 1, Len(container) - 1)

\* aiMessageElement.remove()
remove(container, id) ==
  LET keep(e) == e.id # id IN SelectSeq(container, keep)

\* a faulty notice: the generic one
NoBackendTextGeneric == <<"An error occurred while fetching the response.">>
NoBackendText   == <<"No AI backend registered.">>
ToolErrorText   == <<"A tool call was requested by the AI, but it could not be parsed correctly, as the AI responded with a malformed request. Please try again.">>
StreamErrorText == <<"An error occurred while fetching the response.">>
NotFoundText(name)  == <<"Tool \"" \o name \o "\" not found.">>
UsingToolText(name) == <<"Using tool: " \o name \o "...">>
\* a faulty error notice that does not name the tool
ExecErrorTextNoName(name) == <<"Error executing tool.">>
ExecErrorText(name) == <<"Error executing tool \"" \o name \o "\".">>

---------------------------------------------------------------------------
(* handleSendMessage, up to its first await.                               *)

\* `!content`
empty(content) == \A i \in 1..Len(content) : content[i] = ""

SetFlow(f, flow) ==
  IF f = Len(flows) + 1 THEN Append(flows, flow) ELSE [flows EXCEPT ![f] = flow]

\* where an invocation that returns at once leaves the flows
Return(f) == IF f = Len(flows) + 1 THEN flows ELSE SetFlow(f, FlowDone)

\* a faulty set-up that rebuilds the system turn at every submission
ensureSystemTurnFresh(history, prompt) ==
  IF Len(history) = 0 THEN <<[role |-> "system", content |-> prompt]>>
  ELSE <<[role |-> "system", content |-> prompt]>> \o Tail(history)

\* a faulty set-up that inserts the system turn at every submission
systemTurnAlways(history, prompt) ==
  Append(history, [role |-> "system", content |-> prompt])

\* `if (this.messages.length === 0) this.messages.push({ role: 'system', ... })`
ensureSystemTurn(history, prompt) ==
  IF Len(history) = 0 THEN <<[role |-> "system", content |-> prompt]>> ELSE history

\* a faulty call that passes the submitted turn alone
streamMessageCallLast(f, history) == [flow |-> f, messages |-> <<Last(history)>>]

\* `this.aiBackend.streamMessage(this.messages)`: the call and its argument
streamMessageCall(f, history) == [flow |-> f, messages |-> history]

\* a faulty test of the input field: the inverse
inputIsEmpty(field) == field = <<>>

\* `if (this.input.value)`
inputHasValue(field) == field # <<>>

\* f is the invocation: a new one for the operator, the running one when
\* handleToolCall re-submits a query result.  field is what the input field
\* holds when the invocation starts.
handleSendMessage(f, field, content, role) ==
  IF empty(content)
    THEN /\ inputValue' = field
         /\ flows' = Return(f)
         /\ console' = ""
         /\ UNCHANGED <<tools, toolsPrompt, systemPromptField, aiBackend, messages,
                        messagesContainer, nextEl, calls, execs>>
    ELSE
      LET shown == inputHasValue(field)
          c1 == IF shown THEN displayMessage(messagesContainer, nextEl, content, role)
                         ELSE messagesContainer
          n1 == IF shown THEN nextEl + 1 ELSE nextEl
      IN
      /\ inputValue' = <<>>
      /\ IF aiBackend = Null
           THEN /\ messagesContainer' = displayMessage(c1, n1, NoBackendText, "assistant")
                /\ flows' = Return(f)
                /\ console' =
                     "Curiosity Error: No AI backend has been registered. Use registerAIBackend."
                /\ UNCHANGED <<messages, calls>>
           ELSE /\ Len(calls) < MaxCalls
                /\ messagesContainer' = createStreamedMessageElement(c1, n1)
                /\ messages' =
                     Append(ensureSystemTurn(messages, systemPrompt),
                            [role |-> role, content |-> content])
                /\ calls' = Append(calls, streamMessageCall(f, messages'))
                /\ flows' = SetFlow(f, Flow("awaiting", <<>>, n1, 0, Undefined))
                /\ console' = ""
      /\ nextEl' = n1 + 1
      /\ UNCHANGED <<tools, toolsPrompt, systemPromptField, aiBackend, execs>>

\* the send button or the Enter key, with field in the input field:
\* handleSendMessage()
Click(field) ==
  /\ empty(trim(field)) \/ NumSubmits < MaxSubmits
  /\ handleSendMessage(Len(flows) + 1, field, trim(field), "user")

---------------------------------------------------------------------------
(* The streaming loop and what follows it.                                 *)

Finish(f) == flows' = [flows EXCEPT ![f] = FlowDone]

IsPrefix(s, t) == Len(s) <= Len(t) /\ SubSeq(t, 1, Len(s)) = s

\* the fragments the backend may yield next, having streamed text so far
NextChunks(text) ==
  UNION { { SubSeq(r, Len(text) + 1, Len(text) + n) :
              n \in { k \in 0..MaxFragLen : Len(text) + k <= Len(r) } } :
          r \in { x \in streamMessage(aiBackend) : IsPrefix(text, x) } }

\* a faulty loop whose running total is shared by the invocations
FragmentShared(f, chunk) ==
  LET flow == flows[f]
      fullResponse == flow.fullResponse \o chunk
  IN
  /\ flow.pc = "awaiting"
  /\ chunk \in NextChunks(flow.fullResponse)
  /\ flows' = [g \in 1..Len(flows) |->
                 IF flows[g].pc = "awaiting"
                   THEN [flows[g] EXCEPT !.fullResponse = fullResponse]
                   ELSE flows[g]]
  /\ messagesContainer' = setTextContent(messagesContainer, flow.el, fullResponse, FALSE)
  /\ console' = ""
  /\ UNCHANGED <<tools, toolsPrompt, systemPromptField, aiBackend, messages, inputValue,
                 nextEl, calls, execs>>

\* a faulty loop that shows the fragment in place of the running total
FragmentShowsChunk(f, chunk) ==
  LET flow == flows[f]
      fullResponse == flow.fullResponse \o chunk
  IN
  /\ flow.pc = "awaiting"
  /\ chunk \in NextChunks(flow.fullResponse)
  /\ flows' = [flows EXCEPT ![f].fullResponse = fullResponse]
  /\ messagesContainer' = setTextContent(messagesContainer, flow.el, chunk, FALSE)
  /\ console' = ""
  /\ UNCHANGED <<tools, toolsPrompt, systemPromptField, aiBackend, messages, inputValue,
                 nextEl, calls, execs>>

\* one iteration of `for await (const chunk of ...)`
Fragment(f, chunk) ==
  LET flow == flows[f]
      fullResponse == flow.fullResponse \o chunk
  IN
  /\ flow.pc = "awaiting"
  /\ chunk \in NextChunks(flow.fullResponse)
  /\ flows' = [flows EXCEPT ![f].fullResponse = fullResponse]
  /\ messagesContainer' = setTextContent(messagesContainer, flow.el, fullResponse, FALSE)
  /\ console' = ""
  /\ UNCHANGED <<tools, toolsPrompt, systemPromptField, aiBackend, messages, inputValue,
                 nextEl, calls, execs>>

\* a faulty catch block that takes the unanswered turn back out of the history
StreamErrorRollsBack(f) ==
  LET flow == flows[f] IN
  /\ flow.pc = "awaiting"
  /\ messagesContainer' = setTextContent(messagesContainer, flow.el, StreamErrorText, FALSE)
  /\ messages' = SubSeq(messages, 1, Len(messages) - 1)
  /\ Finish(f)
  /\ console' = "Curiosity Error: Streaming failed."
  /\ UNCHANGED <<tools, toolsPrompt, systemPromptField, aiBackend, inputValue,
                 nextEl, calls, execs>>

\* a faulty catch block that keeps what was streamed as an assistant turn
StreamErrorKeepsPartial(f) ==
  LET flow == flows[f] IN
  /\ flow.pc = "awaiting"
  /\ messagesContainer' = setTextContent(messagesContainer, flow.el, StreamErrorText, FALSE)
  /\ messages' = Append(messages, [role |-> "assistant", content |-> flow.fullResponse])
  /\ Finish(f)
  /\ console' = "Curiosity Error: Streaming failed."
  /\ UNCHANGED <<tools, toolsPrompt, systemPromptField, aiBackend, inputValue,
                 nextEl, calls, execs>>

\* the stream throws: the catch block of handleSendMessage
StreamError(f) ==
  LET flow == flows[f] IN
  /\ flow.pc = "awaiting"
  /\ messagesContainer' = setTextContent(messagesContainer, flow.el, StreamErrorText, FALSE)
  /\ Finish(f)
  /\ console' = "Curiosity Error: Streaming failed."
  /\ UNCHANGED <<tools, toolsPrompt, systemPromptField, aiBackend, messages, inputValue,
                 nextEl, calls, execs>>

\* a faulty lookup that takes the first tool whatever its name
findFirst(ts, name) == IF Len(ts) > 0 THEN 1 ELSE 0

\* tools.find((t) => t.name === name): the index of the first match, 0 if none
find(ts, name) ==
  IF \E i \in 1..Len(ts) : ts[i].name = name
    THEN CHOOSE i \in 1..Len(ts) :
           ts[i].name = name /\ \A k \in 1..(i - 1) : ts[k].name # name
    ELSE 0

\* handleToolCall, up to `await tool.execute(toolCall.args)`
handleToolCall(f, toolCall, container) ==
  LET tool == find(tools, toolCall.toolName) IN
  IF tool = 0
    THEN /\ messagesContainer' =
              displayMessage(container, nextEl, NotFoundText(toolCall.toolName), "assistant")
         /\ Finish(f)
         /\ console' = ""
         /\ UNCHANGED execs
    ELSE /\ messagesContainer' =
              displayMessage(container, nextEl, UsingToolText(tools[tool].name), "assistant")
         /\ execs' = Append(execs, [flow |-> f, tool |-> tools[tool], args |-> toolCall.args])
         /\ flows' = [flows EXCEPT ![f] = Flow("dispatching", <<>>, 0, tool, toolCall.args)]
         /\ console' = ""

\* a faulty continuation that records the request as an assistant turn
StreamEndRecordsRequest(f) ==
  LET flow == flows[f]
      fullResponse == flow.fullResponse
      toolCall == tryParseToolCall(fullResponse)
  IN
  /\ flow.pc = "awaiting"
  /\ fullResponse \in streamMessage(aiBackend)
  /\ IF ~toolCall.isNull /\ "toolCallFailed" \in toolCall.keys
       THEN /\ messagesContainer' =
                 setTextContent(messagesContainer, flow.el, ToolErrorText, TRUE)
            /\ Finish(f)
            /\ console' = "Curiosity Error: Tool call parsing failed."
            /\ UNCHANGED <<messages, nextEl, execs>>
     ELSE IF ~toolCall.isNull
       THEN /\ handleToolCall(f, toolCall, remove(messagesContainer, flow.el))
            /\ nextEl' = nextEl + 1
            /\ messages' = Append(messages, [role |-> "assistant", content |-> fullResponse])
     ELSE /\ messages' = Append(messages, [role |-> "assistant", content |-> fullResponse])
          /\ Finish(f)
          /\ console' = ""
          /\ UNCHANGED <<messagesContainer, nextEl, execs>>
  /\ UNCHANGED <<tools, toolsPrompt, systemPromptField, aiBackend, inputValue, calls>>

\* the stream ends: the code after the loop
StreamEnd(f) ==
  LET flow == flows[f]
      fullResponse == flow.fullResponse
      toolCall == tryParseToolCall(fullResponse)
  IN
  /\ flow.pc = "awaiting"
  /\ fullResponse \in streamMessage(aiBackend)
  /\ IF ~toolCall.isNull /\ "toolCallFailed" \in toolCall.keys
       THEN /\ messagesContainer' =
                 setTextContent(messagesContainer, flow.el, ToolErrorText, TRUE)
            /\ Finish(f)
            /\ console' = "Curiosity Error: Tool call parsing failed."
            /\ UNCHANGED <<messages, nextEl, execs>>
     ELSE IF ~toolCall.isNull
       THEN /\ handleToolCall(f, toolCall, remove(messagesContainer, flow.el))
            /\ nextEl' = nextEl + 1
            /\ UNCHANGED messages
     ELSE /\ messages' = Append(messages, [role |-> "assistant", content |-> fullResponse])
          /\ Finish(f)
          /\ console' = ""
          /\ UNCHANGED <<messagesContainer, nextEl, execs>>
  /\ UNCHANGED <<tools, toolsPrompt, systemPromptField, aiBackend, inputValue, calls>>

\* a faulty test that every tool passes
instanceofCuriosityTool(tool) == tool.type \in {"Query", "Action"}

\* tool instanceof QueryTool
instanceofQueryTool(tool) == tool.type = "Query"

\* what tool.execute may resolve to: a QueryTool's query result, nothing
\* for an ActionTool
Results(tool) == IF tool.type = "Query" THEN QueryResults ELSE {"undefined"}

\* a faulty re-submission that sends nothing for an empty result
ToolResponseOrNothing(result) ==
  IF result = "" THEN <<"">>
  ELSE <<"<tool-response>" \o JSONstringify(result) \o "</tool-response>">>

\* a faulty re-submission of the result alone
ToolResponseBare(result) == <<result>>

\* a faulty re-submission that does not encode the result
ToolResponseRaw(result) == <<"<tool-response>" \o result \o "</tool-response>">>

\* the content handleToolCall re-submits
ToolResponse(result) == <<"<tool-response>" \o JSONstringify(result) \o "</tool-response>">>

\* tool.execute resolves: the rest of handleToolCall's try block
ExecuteResolved(f, result, field) ==
  LET flow == flows[f]
      tool == tools[flow.tool]
  IN
  /\ flow.pc = "dispatching"
  /\ result \in Results(tool)
  /\ IF instanceofQueryTool(tool)
       THEN handleSendMessage(f, field, ToolResponse(result), "tool")
       ELSE /\ field = inputValue
            /\ Finish(f)
            /\ console' = ""
            /\ UNCHANGED <<tools, toolsPrompt, systemPromptField, aiBackend, messages,
                           inputValue, messagesContainer, nextEl, calls, execs>>

\* tool.execute rejects: the catch block of handleToolCall
ExecuteRejected(f) ==
  LET flow == flows[f]
      tool == tools[flow.tool]
  IN
  /\ flow.pc = "dispatching"
  /\ messagesContainer' =
       displayMessage(messagesContainer, nextEl, ExecErrorText(tool.name), "assistant")
  /\ nextEl' = nextEl + 1
  /\ Finish(f)
  /\ console' = "Curiosity Error: Tool execution failed for " \o tool.name \o "."
  /\ UNCHANGED <<tools, toolsPrompt, systemPromptField, aiBackend, messages, inputValue,
                 calls, execs>>

---------------------------------------------------------------------------

Next ==
  \/ UNCHANGED sepVars /\ registerAIBackend(mockAIBackend)
  \/ UNCHANGED sepVars /\ \E tool \in ToolCatalog : registerTool(tool)
  \/ UNCHANGED sepVars /\ \E field \in Inputs \cup {inputValue} : Click(field)
  \/ UNCHANGED sepVars /\ \E f \in 1..Len(flows) : \E chunk \in NextChunks(flows[f].fullResponse) :
       Fragment(f, chunk)
  \/ UNCHANGED sepVars /\ \E f \in 1..Len(flows) : StreamError(f)
  \/ UNCHANGED sepVars /\ \E f \in 1..Len(flows) : StreamEnd(f)
  \/ UNCHANGED sepVars /\ \E f \in 1..Len(flows) : \E result \in QueryResults \cup {"undefined"} :
       \E field \in Inputs \cup {inputValue} : ExecuteResolved(f, result, field)
  \/ UNCHANGED sepVars /\ \E f \in 1..Len(flows) : ExecuteRejected(f)

Spec == Init /\ [][Next]_vars

\* The page of the README's Quick Start: the application registers a backend
\* and the one tool changeBackgroundColor, which no delimited request of the
\* backend names, so that no execute is ever awaited.
NextQuickStart ==
  \/ UNCHANGED sepVars /\ registerAIBackend(mockAIBackend)
  \/ UNCHANGED sepVars /\ registerTool(changeColorTool)
  \/ UNCHANGED sepVars /\ \E field \in Inputs \cup {inputValue} : Click(field)
  \/ UNCHANGED sepVars /\ \E f \in 1..Len(flows) : \E chunk \in NextChunks(flows[f].fullResponse) :
       Fragment(f, chunk)
  \/ UNCHANGED sepVars /\ \E f \in 1..Len(flows) : StreamError(f)
  \/ UNCHANGED sepVars /\ \E f \in 1..Len(flows) : StreamEnd(f)

QuickStart == Init /\ [][NextQuickStart]_vars

\* A page whose backend probes the extractor, constructed with or without
\* a system prompt of its own; the operator submits until one message has
\* reached the backend.
InitProbe ==
  /\ tools = <<>>
  /\ toolsPrompt = <<>>
  /\ systemPromptField \in { InitialSystemPrompt(o) : o \in PromptOptions \cup {"Be brief."} }
  /\ aiBackend = Null
  /\ messages = <<>>
  /\ inputValue = <<>>
  /\ messagesContainer = <<>>
  /\ nextEl = 1
  /\ flows = <<>>
  /\ calls = <<>>
  /\ execs = <<>>
  /\ console = ""
  /\ isReasoning = FALSE
  /\ completeResponse = <<>>
  /\ call = NoCall

NextProbe ==
  \/ UNCHANGED sepVars /\ registerAIBackend(probeBackend)
  \/ UNCHANGED sepVars /\ \E tool \in ToolCatalog : registerTool(tool)
  \/ UNCHANGED sepVars /\ \E field \in Inputs \cup {inputValue} : calls = <<>> /\ Click(field)
  \/ UNCHANGED sepVars /\ \E f \in 1..Len(flows) : \E chunk \in NextChunks(flows[f].fullResponse) :
       Fragment(f, chunk)
  \/ UNCHANGED sepVars /\ \E f \in 1..Len(flows) : StreamError(f)
  \/ UNCHANGED sepVars /\ \E f \in 1..Len(flows) : StreamEnd(f)
  \/ UNCHANGED sepVars /\ \E f \in 1..Len(flows) : \E result \in QueryResults \cup {"undefined"} :
       \E field \in Inputs \cup {inputValue} : ExecuteResolved(f, result, field)
  \/ UNCHANGED sepVars /\ \E f \in 1..Len(flows) : ExecuteRejected(f)

Probe == InitProbe /\ [][NextProbe]_vars

\* a faulty separator that looks for the tags in the chunk alone
processChatResponsePerChunk(response) ==
  IF Len(response.choices) = 0
    THEN /\ call' = Call(<<>>, <<>>, isReasoning, <<>>)
         /\ UNCHANGED <<isReasoning, completeResponse>>
    ELSE
      LET given == response.choices[1].content
          accumulated == completeResponse \o given
          opened == IF includesText(given, THINK) THEN TRUE ELSE isReasoning
          closes == includesText(given, ENDTHINK)
          reasoning == IF closes THEN FALSE ELSE opened
          content == IF closes THEN <<>> ELSE given
      IN /\ closes \/ Len(accumulated) <= MaxAccumulated
         /\ isReasoning' = reasoning
         /\ completeResponse' = IF closes THEN <<>> ELSE accumulated
         /\ call' = Call(given, content, reasoning,
                         IF reasoning THEN <<"thinking...">> ELSE content)

\* a faulty separator that keeps the accumulated text when the reasoning ends
processChatResponseNoReset(response) ==
  IF Len(response.choices) = 0
    THEN /\ call' = Call(<<>>, <<>>, isReasoning, <<>>)
         /\ UNCHANGED <<isReasoning, completeResponse>>
    ELSE
      LET given == response.choices[1].content
          accumulated == completeResponse \o given
          opened == IF includesText(accumulated, THINK) THEN TRUE ELSE isReasoning
          closes == includesText(accumulated, ENDTHINK)
          reasoning == IF closes THEN FALSE ELSE opened
          content == IF closes THEN <<>> ELSE given
      IN /\ Len(accumulated) <= MaxAccumulated + MaxChunkLen
         /\ isReasoning' = reasoning
         /\ completeResponse' = accumulated
         /\ call' = Call(given, content, reasoning,
                         IF reasoning THEN <<"thinking...">> ELSE content)

\* a faulty separator that ends the reasoning on a response without choices
processChatResponseEmptyResets(response) ==
  IF Len(response.choices) = 0
    THEN /\ call' = Call(<<>>, <<>>, FALSE, <<>>)
         /\ isReasoning' = FALSE
         /\ completeResponse' = <<>>
    ELSE
      LET given == response.choices[1].content
          accumulated == completeResponse \o given
          opened == IF includesText(accumulated, THINK) THEN TRUE ELSE isReasoning
          closes == includesText(accumulated, ENDTHINK)
          reasoning == IF closes THEN FALSE ELSE opened
          content == IF closes THEN <<>> ELSE given
      IN /\ closes \/ Len(accumulated) <= MaxAccumulated
         /\ isReasoning' = reasoning
         /\ completeResponse' = IF closes THEN <<>> ELSE accumulated
         /\ call' = Call(given, content, reasoning,
                         IF reasoning THEN <<"thinking...">> ELSE content)

\* DeepSeekReasoningSeparator.processChatResponse
processChatResponse(response) ==
  IF Len(response.choices) = 0
    THEN /\ call' = Call(<<>>, <<>>, isReasoning, <<>>)
         /\ UNCHANGED <<isReasoning, completeResponse>>
    ELSE
      LET given == response.choices[1].content
          accumulated == completeResponse \o given
          opened == IF includesText(accumulated, THINK) THEN TRUE ELSE isReasoning
          closes == includesText(accumulated, ENDTHINK)
          reasoning == IF closes THEN FALSE ELSE opened
          content == IF closes THEN <<>> ELSE given
      IN /\ closes \/ Len(accumulated) <= MaxAccumulated
         /\ isReasoning' = reasoning
         /\ completeResponse' = IF closes THEN <<>> ELSE accumulated
         /\ call' = Call(given, content, reasoning,
                         IF reasoning THEN <<"thinking...">> ELSE content)

\* A caller that feeds the chunks of a streamed completion to a separator.
NextSeparator ==
  \E response \in DeepSeekResponses : processChatResponse(response) /\ UNCHANGED vars

Separator == Init /\ [][NextSeparator]_sepVars

---------------------------------------------------------------------------
(* Vocabulary of the properties.                                           *)

\* what the operator may find in the input field at a step that reads it
Fields == Inputs \cup {inputValue}

\* what an execute may resolve to
AllResults == QueryResults \cup {"undefined"}

\* the invocation has returned: nothing is awaited for it any more
Returned(f) == flows'[f].pc = "done"

\* the element the invocation streams into, after the step
StreamedElement(f) ==
  CHOOSE e \in SeqToSet(messagesContainer') : e.id = flows[f].el

\* the step appends exactly this notice to the chat, and changes no other element
Notice(container, text) ==
  messagesContainer' = Append(container, Element(nextEl, "assistant", text))

Shown(text) == \E i \in 1..Len(messagesContainer) : messagesContainer[i].textContent = text

\* the completed text of the response the invocation awaits
Completed(f) == flows[f].fullResponse

\* the request the extractor decodes from a completed text
Decoded(f) == tryParseToolCall(Completed(f))

\* the completed text is classified as a request that names a registered tool
RequestFor(f, type) ==
  /\ Classify(Completed(f)) = "Request"
  /\ \E i \in 1..Len(tools) :
       /\ tools[i].name = Decoded(f).toolName
       /\ \A k \in 1..(i - 1) : tools[k].name # Decoded(f).toolName
       /\ tools[i].type = type

\* the registered tool a request names: the first of that name
Named(f) ==
  tools[CHOOSE i \in 1..Len(tools) :
          /\ tools[i].name = Decoded(f).toolName
          /\ \A k \in 1..(i - 1) : tools[k].name # Decoded(f).toolName]

\* both delimiters, with a text between them that is not empty and is not an
\* object with the use flag and the tool name
MalformedPayload(text) ==
  LET m == toolCallRegex(text) IN
  /\ m.found
  /\ trim(m.group) # <<>>
  /\ LET d == JSONparse(trim(m.group)) IN
       \/ ~d.ok
       \/ d.value.type # "object"
       \/ ~({"toolUse", "toolName"} \subseteq d.value.keys)

\* the text is only whitespace, or nothing
Blank(field) == \A i \in 1..Len(field) : field[i] = WS

\* the tokens of a prompt that open a tool descriptor, and those that name a tool
IsToolOpen(tok) == tok = "<tool>"

IsNameTag(tok) == \E t \in ToolCatalog : tok = NameTag(t.name)

IsUsage(tok) ==
  \E t \in ToolCatalog :
    \/ tok = "{\"toolUse\":true,\"toolName\":\"" \o t.name \o "\"}"
    \/ tok = "{\"toolUse\":true,\"toolName\":\"" \o t.name \o "\",\"args\":"
               \o t.arguments \o "}"

---------------------------------------------------------------------------
(* The properties.                                                         *)

(* C1: when a completed response is classified as a request naming a      *)
(* registered Query tool, that tool's execute is called exactly once with  *)
(* the decoded args; when it resolves to r, exactly one tool turn with the *)
(* content <tool-response>JSON(r)</tool-response> is appended and exactly  *)
(* one more streamMessage call is made, with a history ending in that turn.*)
C1_QuerySuccess ==
  [][\A f \in 1..Len(flows) :
       /\ (StreamEnd(f) /\ RequestFor(f, "Query")) =>
            /\ execs' = Append(execs, [flow |-> f, tool |-> Named(f),
                                       args |-> Decoded(f).args])
            /\ calls' = calls
            /\ messages' = messages
       /\ \A r \in AllResults : \A field \in Fields :
            (ExecuteResolved(f, r, field) /\ tools[flows[f].tool].type = "Query") =>
              LET turn == [role |-> "tool",
                           content |-> <<"<tool-response>" \o JSONstringify(r)
                                           \o "</tool-response>">>]
              IN /\ execs' = execs
                 /\ messages' = Append(messages, turn)
                 /\ calls' = Append(calls, [flow |-> f, messages |-> messages'])
                 /\ Last(Last(calls').messages) = turn
                 /\ flows'[f].pc = "awaiting"]_vars

C1_Witness ==
  \E i \in 2..Len(calls) : \E k \in 1..Len(execs) :
    /\ Last(calls[i].messages) =
         [role |-> "tool", content |-> <<"<tool-response>\"some data\"</tool-response>">>]
    /\ execs[k].flow = calls[i].flow
    /\ execs[k].tool.name = "doQuery"
    /\ execs[k].tool.type = "Query"
    /\ execs[k].args = [query |-> "info"]
    /\ Len(execs) = 1

(* C2: when a completed response is classified as a request naming a      *)
(* registered Action tool, execute is called exactly once with the decoded *)
(* args; when it resolves no streamMessage call is made, no turn is        *)
(* appended to the history, and the invocation returns.                    *)
C2_ActionSuccess ==
  [][\A f \in 1..Len(flows) :
       /\ (StreamEnd(f) /\ RequestFor(f, "Action")) =>
            /\ execs' = Append(execs, [flow |-> f, tool |-> Named(f),
                                       args |-> Decoded(f).args])
            /\ calls' = calls
            /\ messages' = messages
       /\ \A r \in AllResults : \A field \in Fields :
            (ExecuteResolved(f, r, field) /\ tools[flows[f].tool].type = "Action") =>
              /\ execs' = execs
              /\ calls' = calls
              /\ messages' = messages
              /\ Returned(f)]_vars

C2_Witness ==
  \E k \in 1..Len(execs) :
    /\ execs[k].tool.name = "doAction"
    /\ execs[k].tool.type = "Action"
    /\ execs[k].args = [payload |-> "test"]
    /\ flows[execs[k].flow].pc = "done"
    /\ Last(messagesContainer).textContent = <<"Using tool: doAction...">>
    /\ Len(execs) = 1
    /\ Len(calls) = 1

(* C3: when a completed response has both delimiters around a text that   *)
(* is not a well-formed request, the tool-error notice is shown, no tool   *)
(* is executed, no streamMessage call is made, the history is left as it   *)
(* was, and the invocation returns.                                        *)
C3_Malformed ==
  [][\A f \in 1..Len(flows) :
       (StreamEnd(f) /\ MalformedPayload(Completed(f))) =>
         /\ StreamedElement(f).toolError
         /\ StreamedElement(f).textContent # StreamErrorText
         /\ StreamedElement(f).textContent # Completed(f)
         /\ Len(messagesContainer') = Len(messagesContainer)
         /\ execs' = execs
         /\ calls' = calls
         /\ messages' = messages
         /\ Returned(f)]_vars

C3_Witness ==
  /\ \E i \in 1..Len(messagesContainer) :
       /\ messagesContainer[i].toolError
       /\ messagesContainer[i].textContent = ToolErrorText
  /\ \A f \in 1..Len(flows) : flows[f].pc = "done"
  /\ Len(messages) = 2
  /\ execs = <<>>

(* C4: for every completed response that does not contain both            *)
(* delimiters, the empty text included, exactly one assistant turn whose   *)
(* content is the full text is appended to the history, no tool is         *)
(* executed, no streamMessage call is made, and the invocation returns.    *)
C4_Plain ==
  [][\A f \in 1..Len(flows) :
       (StreamEnd(f) /\ ~(includes(Completed(f), OPEN) /\ includes(Completed(f), CLOSE))) =>
         /\ messages' = Append(messages, [role |-> "assistant", content |-> Completed(f)])
         /\ execs' = execs
         /\ calls' = calls
         /\ Returned(f)]_vars

C4_Witness ==
  \E i \in 1..Len(messages) : \E k \in 1..Len(messages) :
    /\ messages[i] = [role |-> "assistant", content |-> <<>>]
    /\ messages[k] = [role |-> "assistant", content |-> <<"Echo", OPEN>>]

(* C5: a submission whose input is empty, or only whitespace, changes     *)
(* nothing in any state: no turn is appended (not the system turn either), *)
(* no streamMessage call is made, nothing is shown or logged, no           *)
(* invocation is left running, and the input field keeps what it held.     *)
C5_EmptySubmit ==
  [][\A field \in Fields :
       (Click(field) /\ Blank(field)) =>
         /\ inputValue' = field
         /\ console' = ""
         /\ UNCHANGED <<tools, toolsPrompt, systemPromptField, aiBackend, messages,
                        messagesContainer, nextEl, flows, calls, execs>>]_vars

C5_Witness ==
  /\ inputValue = <<WS>>
  /\ \E f \in 1..Len(flows) : flows[f].pc = "awaiting" /\ flows[f].fullResponse # <<>>
  /\ \E f \in 1..Len(flows) : flows[f].pc = "dispatching"

(* C6: when a completed response is classified as a request naming a tool *)
(* that is not registered, the notice Tool "<name>" not found. is shown    *)
(* and nothing else, no tool is executed, no turn is appended to the       *)
(* history, no streamMessage call is made, and the invocation returns.     *)
C6_UnknownTool ==
  [][\A f \in 1..Len(flows) :
       (/\ StreamEnd(f)
        /\ Classify(Completed(f)) = "Request"
        /\ \A i \in 1..Len(tools) : tools[i].name # Decoded(f).toolName) =>
         /\ Notice(remove(messagesContainer, flows[f].el),
                   <<"Tool \"" \o Decoded(f).toolName \o "\" not found.">>)
         /\ execs' = execs
         /\ calls' = calls
         /\ messages' = messages
         /\ Returned(f)]_vars

C6_Witness ==
  /\ Shown(<<"Tool \"nonExistentTool\" not found.">>)
  /\ Len(tools) = 2
  /\ execs = <<>>
  /\ \A f \in 1..Len(flows) : flows[f].pc = "done"

(* C7: the registry holds one entry per name, the first tool registered   *)
(* under it, in the order of first registration: a registerTool whose name *)
(* is new appends the tool, one whose name is present writes a warning and *)
(* leaves the registry and the descriptors as they are, and no step ever   *)
(* removes or replaces an entry.                                           *)
C7_Registry ==
  [][/\ IsPrefix(tools, tools')
     /\ \A i \in 1..Len(tools') : \A k \in 1..Len(tools') :
          tools'[i].name = tools'[k].name => i = k
     /\ tools' # tools => \E tool \in ToolCatalog : registerTool(tool)
     /\ \A tool \in ToolCatalog :
          registerTool(tool) =>
            IF \E i \in 1..Len(tools) : tools[i].name = tool.name
              THEN /\ tools' = tools
                   /\ toolsPrompt' = toolsPrompt
                   /\ console' = "Curiosity Warning: A tool with the name \""
                                   \o tool.name \o "\" is already registered."
              ELSE tools' = Append(tools, tool)]_vars

C7_Witness ==
  /\ console = "Curiosity Warning: A tool with the name \"doAction\" is already registered."
  /\ Len(tools) = 2
  /\ tools[1].name = "doAction"
  /\ tools[1].description = "Another action"
  /\ tools[2].name = "doQuery"

(* C8: at every point the prompt the systemPrompt getter returns holds    *)
(* exactly one usage descriptor for each registered tool, in registration  *)
(* order, and none for a tool that is not registered.                      *)
C8_PromptDescriptors ==
  /\ Len(SelectSeq(systemPrompt, IsToolOpen)) = Len(tools)
  /\ SelectSeq(systemPrompt, IsNameTag) = [i \in 1..Len(tools) |-> NameTag(tools[i].name)]
  /\ SelectSeq(systemPrompt, IsUsage) = [i \in 1..Len(tools) |-> toolDefinition(tools[i])[6]]

C8_Witness ==
  /\ console = "Curiosity Warning: A tool with the name \"doQuery\" is already registered."
  /\ Len(tools) = 2
  /\ tools[1].name = "doQuery"
  /\ tools[2].type = "Action"
  /\ Len(messages) > 0

(* C9: when the stream fails, after any number of fragments, the generic  *)
(* failure notice is shown, what was streamed so far is not appended to    *)
(* the history, which is left as it was, no tool is executed, no           *)
(* streamMessage call is made, and the invocation returns.                 *)
C9_StreamFailure ==
  [][\A f \in 1..Len(flows) :
       StreamError(f) =>
         /\ StreamedElement(f).textContent =
              <<"An error occurred while fetching the response.">>
         /\ ~StreamedElement(f).toolError
         /\ Len(messagesContainer') = Len(messagesContainer)
         /\ messages' = messages
         /\ execs' = execs
         /\ calls' = calls
         /\ Returned(f)]_vars

C9_Witness ==
  /\ Shown(<<"An error occurred while fetching the response.">>)
  /\ \A f \in 1..Len(flows) : flows[f].pc = "done"
  /\ Len(calls) = 2
  /\ Len(messages) = 3
  /\ Last(messages).role = "tool"

(* C10: when the execute of a registered tool fails, Action or Query, the *)
(* notice Error executing tool "<name>". is shown, no turn is appended to  *)
(* the history, no streamMessage call is made, and the invocation returns. *)
C10_ExecuteFailure ==
  [][\A f \in 1..Len(flows) :
       ExecuteRejected(f) =>
         /\ Notice(messagesContainer,
                   <<"Error executing tool \"" \o tools[flows[f].tool].name \o "\".">>)
         /\ messages' = messages
         /\ calls' = calls
         /\ execs' = execs
         /\ Returned(f)]_vars

C10_Witness ==
  /\ Shown(<<"Error executing tool \"doQuery\".">>)
  /\ Shown(<<"Error executing tool \"doAction\".">>)
  /\ \A f \in 1..Len(flows) : flows[f].pc = "done"
  /\ \A i \in 1..Len(messages) : messages[i].role # "tool"

---------------------------------------------------------------------------
(* The history, the turns and the calls.                                   *)

\* how many turns of a history have the role
Turns(history, role) ==
  Cardinality({ i \in 1..Len(history) : history[i].role = role })

\* the streamMessage calls the invocation has made
CallsOf(f) == { i \in 1..Len(calls) : calls[i].flow = f }

\* the history the invocation gave to its latest streamMessage call
Asked(f) ==
  calls[CHOOSE i \in CallsOf(f) : \A k \in CallsOf(f) : k <= i].messages

\* the step is a click with input that is not blank
Submit(field) == Click(field) /\ ~Blank(field)

\* the step is the resolution of a QueryTool's execute
QueryResolved(f) ==
  \E r \in AllResults : \E field \in Fields :
    ExecuteResolved(f, r, field) /\ tools[flows[f].tool].type = "Query"

\* the text is one JSON object with the use flag and the tool name, and no
\* delimiter
BareRequest(text) ==
  /\ Len(text) = 1
  /\ JSONparse(text).ok
  /\ JSONparse(text).value.type = "object"
  /\ {"toolUse", "toolName"} \subseteq JSONparse(text).value.keys

(* C11: the history is append-only: over every step, failures and         *)
(* overlapping submissions included, the history before the step is a      *)
(* prefix of the history after it.                                         *)
C11_AppendOnly ==
  [][IsPrefix(messages, messages')]_vars

C11_Witness ==
  /\ Len(messages) = 4
  /\ messages[2].role = "user"
  /\ messages[3].role = "user"
  /\ messages[4].role = "assistant"
  /\ Shown(<<"An error occurred while fetching the response.">>)

(* C12: the history holds at most one system turn; when it is not empty   *)
(* the system turn is its first element and the first user turn follows    *)
(* it at once; the system turn comes with the first submission that        *)
(* reaches the backend, not before.                                        *)
C12_SystemTurn ==
  /\ Turns(messages, "system") <= 1
  /\ messages # <<>> =>
       /\ messages[1].role = "system"
       /\ Len(messages) >= 2
       /\ messages[2].role = "user"
  /\ (messages = <<>>) <=> (calls = <<>>)
  /\ calls # <<>> => calls[1].messages = SubSeq(messages, 1, 2)

C12_Witness ==
  /\ Shown(<<"No AI backend registered.">>)
  /\ Len(messages) = 4
  /\ messages[3].role = "tool"
  /\ messages[4].role = "assistant"
  /\ Len(tools) = 2

(* C13: every submitted turn comes back to Idle on every path, when every *)
(* stream ends or fails and every execute completes or fails.  For the     *)
(* runs of the model: an invocation that has made every streamMessage call *)
(* the model allows is not awaiting a query result it would re-submit.     *)
C13_BackToIdle ==
  \A f \in 1..Len(flows) :
    Cardinality(CallsOf(f)) = MaxCalls =>
      ~(flows[f].pc = "dispatching" /\ tools[flows[f].tool].type = "Query")

(* C14: a submit that arrives while a stream is in flight or a tool is    *)
(* executing is policed, so that two streams are never in flight at once.  *)
C14_OneStream ==
  Cardinality({ f \in 1..Len(flows) : flows[f].pc = "awaiting" }) <= 1

(* C15: turns are appended in causal order: the assistant turn, and the   *)
(* tool turn, follow at once the last turn of the history given to the     *)
(* streamMessage call they answer; no other turn comes between.            *)
C15_CausalOrder ==
  [][\A f \in 1..Len(flows) :
       ((StreamEnd(f) /\ Classify(Completed(f)) = "Plain") \/ QueryResolved(f)) =>
          /\ messages = Asked(f)
          /\ Len(messages') = Len(messages) + 1]_vars

(* C16: each successful query execution triggers exactly one              *)
(* re-submission: a step makes one streamMessage call when it is a submit  *)
(* that is not blank with a backend registered or the resolution of a      *)
(* query, and none otherwise; it appends one tool turn when it is the      *)
(* resolution of a query, and none otherwise; so the calls are as many as  *)
(* the user and tool turns.                                                *)
C16_OneResubmission ==
  [][LET submit == \E field \in Fields : Submit(field) /\ aiBackend # Null
         query  == \E f \in 1..Len(flows) : QueryResolved(f)
     IN /\ Len(calls') = Len(calls) + (IF submit \/ query THEN 1 ELSE 0)
        /\ Turns(messages', "tool") = Turns(messages, "tool") + (IF query THEN 1 ELSE 0)
        /\ Turns(messages', "user") = Turns(messages, "user") + (IF submit THEN 1 ELSE 0)
        /\ Len(calls) = Turns(messages, "user") + Turns(messages, "tool")]_vars

C16_Witness ==
  /\ Len(calls) = 2
  /\ Turns(messages, "tool") = 1
  /\ Turns(messages, "user") = 1
  /\ Last(messages).content = <<"<tool-response>\"\"</tool-response>">>
  /\ Shown(<<"No AI backend registered.">>)

(* C17: the chain of re-submissions after one submit is bounded by a      *)
(* maximum depth: there is a depth, below what the model allows, that the  *)
(* streamMessage calls of one invocation never exceed.                     *)
C17_DepthBound ==
  \E depth \in 1..(MaxCalls - 1) :
    \A f \in 1..Len(flows) : Cardinality(CallsOf(f)) <= depth

(* C18: a response that is a bare JSON object with toolUse and toolName,  *)
(* without the delimiters, is not a tool call: no tool is executed and the *)
(* text is appended as an assistant turn.                                  *)
C18_BareIsPlain ==
  [][\A f \in 1..Len(flows) :
       (StreamEnd(f) /\ BareRequest(Completed(f))) =>
         /\ execs' = execs
         /\ messages' = Append(messages, [role |-> "assistant", content |-> Completed(f)])
         /\ Len(messagesContainer') = Len(messagesContainer)
         /\ Returned(f)]_vars

C18_Witness ==
  /\ tools = <<changeColorTool>>
  /\ execs = <<>>
  /\ messages # <<>>
  /\ Last(messages) = [role |-> "assistant", content |-> <<JColor>>]
  /\ \A f \in 1..Len(flows) : flows[f].pc = "done"

(* C19: as in the README's Quick Start, with changeBackgroundColor        *)
(* registered and a backend that yields only the bare JSON request for it, *)
(* the tool's action is executed with {color: 'lightblue'}.                *)
C19_QuickStartRuns ==
  [][\A f \in 1..Len(flows) :
       (StreamEnd(f) /\ Completed(f) = <<JColor>> /\ tools = <<changeColorTool>>) =>
         execs' = Append(execs, [flow |-> f, tool |-> changeColorTool,
                                 args |-> [color |-> "lightblue"]])]_vars

(* C20: a submit that is not blank while no backend is registered shows   *)
(* No AI backend registered. and logs an error, makes no streamMessage     *)
(* call, appends nothing to the history and leaves nothing running; a      *)
(* first submit after a backend is registered puts the system turn first.  *)
C20_NoBackend ==
  [][\A field \in Fields :
       /\ (Submit(field) /\ aiBackend = Null) =>
            /\ messagesContainer' =
                 messagesContainer
                   \o << Element(nextEl, "user", trim(field)),
                         Element(nextEl + 1, "assistant", <<"No AI backend registered.">>) >>
            /\ console' =
                 "Curiosity Error: No AI backend has been registered. Use registerAIBackend."
            /\ UNCHANGED <<messages, calls, execs, flows>>
       /\ (Submit(field) /\ aiBackend # Null /\ messages = <<>>) =>
            /\ messages' = << [role |-> "system", content |-> systemPrompt],
                              [role |-> "user", content |-> trim(field)] >>
            /\ calls' = <<[flow |-> Len(flows) + 1, messages |-> messages']>>]_vars

C20_Witness ==
  /\ Shown(<<"No AI backend registered.">>)
  /\ messagesContainer[2].textContent = <<"No AI backend registered.">>
  /\ Len(calls) = 1
  /\ Len(messages) = 3
  /\ messages[1].role = "system"
  /\ messages[3].role = "assistant"

---------------------------------------------------------------------------
(* The display, the extractor and the prompt.                              *)

\* the chat element with the identity, before the step
ElementOf(id) == CHOOSE e \in SeqToSet(messagesContainer) : e.id = id

(* C21: while a stream is in flight the element it streams into shows the  *)
(* fragments received so far, concatenated in the order of arrival, empty  *)
(* fragments included; when the stream ends with a text classified Plain,  *)
(* the element keeps the whole text and the assistant turn appended holds   *)
(* the same text.                                                          *)
C21_Progressive ==
  [][\A f \in 1..Len(flows) :
       /\ flows[f].pc = "awaiting" =>
            /\ \E i \in 1..Len(messagesContainer) : messagesContainer[i].id = flows[f].el
            /\ ElementOf(flows[f].el).textContent = Completed(f)
       /\ \A chunk \in NextChunks(Completed(f)) :
            Fragment(f, chunk) =>
              /\ flows'[f].fullResponse = Completed(f) \o chunk
              /\ StreamedElement(f).textContent = Completed(f) \o chunk
              /\ Len(messagesContainer') = Len(messagesContainer)
              /\ messages' = messages
       /\ (StreamEnd(f) /\ Classify(Completed(f)) = "Plain") =>
            /\ StreamedElement(f).textContent = Completed(f)
            /\ messages' = Append(messages, [role |-> "assistant", content |-> Completed(f)])]_vars

C21_Witness ==
  /\ \E f \in 1..Len(flows) :
       /\ flows[f].pc = "awaiting"
       /\ flows[f].fullResponse = <<"Sure", OPEN, JAction>>
       /\ ElementOf(flows[f].el).textContent = <<"Sure", OPEN, JAction>>
  /\ \E i \in 1..Len(messages) :
       messages[i] = [role |-> "assistant", content |-> <<"Echo", OPEN>>]
  /\ Shown(<<"Echo", OPEN>>)

\* the notices of the chat whose text satisfies the test
IsUsingTool(e) == \E i \in 1..Len(tools) : e.textContent = <<"Using tool: " \o tools[i].name \o "...">>

IsExecError(e) ==
  \E i \in 1..Len(tools) : e.textContent = <<"Error executing tool \"" \o tools[i].name \o "\".">>

\* the executes that are still awaited
Executing == { f \in 1..Len(flows) : flows[f].pc = "dispatching" }

(* C22: the notice Using tool: <name>... is emitted on successful execution *)
(* only, and a failed execute shows the error notice and no tool-usage     *)
(* notice: once no execute is awaited any more, the tool-usage notices     *)
(* and the error notices shown are together as many as the executes.       *)
C22_NoticeOnSuccess ==
  Executing = {} =>
    Len(SelectSeq(messagesContainer, IsUsingTool))
      + Len(SelectSeq(messagesContainer, IsExecError)) = Len(execs)

(* C23: every submit of the operator whose trimmed input is not empty      *)
(* displays exactly one user message, whose text is the trimmed input,     *)
(* and clears the input field, in the step of the submit itself, with or   *)
(* without a backend registered.                                           *)
C23_UserMessage ==
  [][\A field \in Fields :
       Submit(field) =>
         /\ Len(messagesContainer') = Len(messagesContainer) + 2
         /\ SubSeq(messagesContainer', 1, Len(messagesContainer)) = messagesContainer
         /\ messagesContainer'[Len(messagesContainer) + 1] =
              [id |-> nextEl, class |-> "user", textContent |-> trim(field),
               toolError |-> FALSE]
         /\ messagesContainer'[Len(messagesContainer) + 2].class = "assistant"
         /\ inputValue' = <<>>]_vars

C23_Witness ==
  /\ Len(messagesContainer) >= 4
  /\ messagesContainer[1].class = "user"
  /\ messagesContainer[1].textContent = <<"hello">>
  /\ messagesContainer[2].textContent = <<"No AI backend registered.">>
  /\ messagesContainer[3].class = "user"
  /\ messagesContainer[3].textContent = <<"hello">>
  /\ \E f \in 1..Len(flows) : flows[f].pc = "awaiting" /\ flows[f].el = messagesContainer[4].id
  /\ inputValue = <<>>

HasPayload(text) ==
  \E i \in 1..Len(text) : \E j \in (i + 1)..Len(text) : text[i] = OPEN /\ text[j] = CLOSE

\* the text strictly between the first opening delimiter and the next
\* closing delimiter
FirstPayload(text) ==
  LET i == CHOOSE a \in 1..Len(text) :
             text[a] = OPEN /\ \A b \in 1..(a - 1) : text[b] # OPEN
      j == CHOOSE a \in (i + 1)..Len(text) :
             text[a] = CLOSE /\ \A b \in (i + 1)..(a - 1) : text[b] # CLOSE
  IN SubSeq(text, i + 1, j - 1)

\* the first payload decodes, and not to an object with the use flag and
\* the tool name
NotARequest(text) ==
  /\ HasPayload(text)
  /\ ~Blank(FirstPayload(text))
  /\ LET d == JSONparse(FirstPayload(text)) IN
       /\ d.ok
       /\ \/ d.value.type # "object"
          \/ ~({"toolUse", "toolName"} \subseteq d.value.keys)

(* C25: when the text between the first opening delimiter and the next     *)
(* closing delimiter is empty or only whitespace, the response is Plain:   *)
(* the whole text, delimiters included, is appended as one assistant turn  *)
(* and stays on display, no tool-error notice is shown, no tool is         *)
(* executed.                                                               *)
C25_BlankPayload ==
  [][\A f \in 1..Len(flows) :
       (StreamEnd(f) /\ HasPayload(Completed(f)) /\ Blank(FirstPayload(Completed(f)))) =>
         /\ messages' = Append(messages, [role |-> "assistant", content |-> Completed(f)])
         /\ messagesContainer' = messagesContainer
         /\ StreamedElement(f).textContent = Completed(f)
         /\ ~StreamedElement(f).toolError
         /\ console' = ""
         /\ execs' = execs
         /\ calls' = calls
         /\ Returned(f)]_vars

C25_Witness ==
  /\ aiBackend = probeBackend
  /\ messages # <<>>
  /\ Last(messages) =
       [role |-> "assistant", content |-> <<OPEN, WS, CLOSE, OPEN, JAction, CLOSE>>]
  /\ \E i \in 1..Len(tools) : tools[i].name = "doAction"
  /\ Shown(<<OPEN, WS, CLOSE, OPEN, JAction, CLOSE>>)
  /\ execs = <<>>

(* C26: a delimited payload that decodes, but not to an object with both   *)
(* toolUse and toolName (null, a number, a string, an array, an object     *)
(* without one of the keys), is Malformed: the tool-error notice is shown, *)
(* no tool is looked up or executed, and the history gets no turn.         *)
C26_NotARequest ==
  [][\A f \in 1..Len(flows) :
       (StreamEnd(f) /\ NotARequest(Completed(f))) =>
         /\ StreamedElement(f).toolError
         /\ StreamedElement(f).textContent =
              <<"A tool call was requested by the AI, but it could not be parsed correctly, as the AI responded with a malformed request. Please try again.">>
         /\ Len(messagesContainer') = Len(messagesContainer)
         /\ console' = "Curiosity Error: Tool call parsing failed."
         /\ execs' = execs
         /\ calls' = calls
         /\ messages' = messages
         /\ Returned(f)]_vars

C26_Witness ==
  /\ aiBackend = probeBackend
  /\ console = "Curiosity Error: Tool call parsing failed."
  /\ Len(messagesContainer) = 2
  /\ messagesContainer[2].toolError
  /\ Len(tools) = 2
  /\ Len(messages) = 2
  /\ execs = <<>>

(* C27: the extractor decodes only the text between the first opening      *)
(* delimiter and the next closing delimiter: the response is classified    *)
(* as that payload alone would be, whatever comes before or after, and a   *)
(* response with several payloads executes at most one tool, the one the   *)
(* first payload names.                                                    *)
C27_FirstPayloadOnly ==
  [][\A f \in 1..Len(flows) :
       StreamEnd(f) =>
         /\ Classify(Completed(f)) =
              IF HasPayload(Completed(f))
                THEN Classify(<<OPEN>> \o FirstPayload(Completed(f)) \o <<CLOSE>>)
                ELSE "Plain"
         /\ Len(execs') <= Len(execs) + 1
         /\ Len(execs') = Len(execs) + 1 =>
              /\ HasPayload(Completed(f))
              /\ JSONparse(FirstPayload(Completed(f))).ok
              /\ Last(execs').tool.name = JSONparse(FirstPayload(Completed(f))).value.toolName
              /\ Last(execs').args = JSONparse(FirstPayload(Completed(f))).value.args]_vars

C27_Witness ==
  /\ aiBackend = probeBackend
  /\ Len(execs) = 1
  /\ execs[1].tool.name = "doAction"
  /\ execs[1].args = [payload |-> "test"]
  /\ Len(tools) = 2
  /\ \E i \in 1..Len(tools) : tools[i].name = "doQuery"
  /\ \A f \in 1..Len(flows) : flows[f].pc = "done"
  /\ Len(calls) = 1

(* C28: a response classified as a request is never recorded in the        *)
(* history, neither the payload nor the prose around it; when submissions  *)
(* do not overlap, the tool turn of a successful query follows at once the *)
(* user or tool turn that the request answered, so the history given to    *)
(* the follow-up call holds the result and not the request.                *)
C28_RequestNotRecorded ==
  [][\A f \in 1..Len(flows) :
       /\ (StreamEnd(f) /\ Classify(Completed(f)) = "Request") => messages' = messages
       /\ (QueryResolved(f) /\ Len(flows) = 1) =>
            LET given == Last(calls').messages IN
            /\ Len(calls') = Len(calls) + 1
            /\ Len(given) = Len(Asked(f)) + 1
            /\ SubSeq(given, 1, Len(Asked(f))) = Asked(f)
            /\ Last(Asked(f)).role \in {"user", "tool"}
            /\ Last(given).role = "tool"
            /\ \A i \in 1..Len(given) :
                 given[i].role = "assistant" => Classify(given[i].content) # "Request"]_vars

C28_Witness ==
  /\ Len(flows) = 1
  /\ Len(execs) = 1
  /\ Len(calls) = 2
  /\ Len(messages) = 4
  /\ messages[2].role = "user"
  /\ messages[3].role = "tool"
  /\ messages[4] = [role |-> "assistant", content |-> <<"Echo", OPEN>>]
  /\ calls[2].messages = SubSeq(messages, 1, 3)

\* the token of a prompt that is the section on how to invoke a tool
IsUsageSection(tok) == tok = "<tool-usage>"

IsToday(tok) == tok = "<today>"

\* the prompt opens with the system prompt, default or given; then, with a
\* tool registered and only then, comes the usage section, once, and after
\* it the descriptors; the timestamp is last
WellFormedPrompt(prompt, withTools) ==
  /\ prompt[1] \in { "<system-prompt>You are a helpful assistant.</system-prompt>",
                      "<system-prompt>Be brief.</system-prompt>" }
  /\ Len(SelectSeq(prompt, IsUsageSection)) = IF withTools THEN 1 ELSE 0
  /\ withTools <=> \E k \in 1..Len(prompt) : IsToolOpen(prompt[k])
  /\ \A i \in 1..Len(prompt) : \A k \in 1..Len(prompt) :
       (IsUsageSection(prompt[i]) /\ IsToolOpen(prompt[k])) => i < k
  /\ Len(SelectSeq(prompt, IsToday)) = 1
  /\ Last(prompt) = "<today>"

(* C29: the prompt holds the section on how to invoke a tool exactly once  *)
(* when a tool is registered and not at all when none is, with the default *)
(* system prompt and with one given to the constructor, after every        *)
(* sequence of registerTool calls; the section precedes the descriptors    *)
(* and the timestamp is last.  The same holds of the system turn of the    *)
(* history, for the tools registered when it was built.                    *)
C29_UsageSection ==
  /\ WellFormedPrompt(systemPrompt, Len(tools) > 0)
  /\ messages # <<>> =>
       WellFormedPrompt(messages[1].content,
                        \E k \in 1..Len(messages[1].content) :
                          IsToolOpen(messages[1].content[k]))

C29_Witness ==
  /\ systemPromptField = <<"<system-prompt>Be brief.</system-prompt>">>
  /\ Len(tools) = 2
  /\ console = "Curiosity Warning: A tool with the name \"doAction\" is already registered."
  /\ messages # <<>>
  /\ Len(messages[1].content) = 2
  /\ Len(systemPrompt) = 19

\* the element is the one a stream in flight writes into
Placeholder(e) == \E f \in 1..Len(flows) : flows[f].pc = "awaiting" /\ flows[f].el = e.id

\* the element is still in the chat after the step
Kept(e) == \E k \in 1..Len(messagesContainer') : messagesContainer'[k].id = e.id

\* the identities of the elements, in order
Ids(container) == [i \in 1..Len(container) |-> container[i].id]

(* C30: the only element ever removed from the chat is the element of a    *)
(* stream in flight, and only in the step in which its completed text is   *)
(* classified as a request; every other element (user message, tool-usage  *)
(* notice, error notice, final assistant text) stays as it is, in its      *)
(* place, once displayed.                                                  *)
C30_OnlyPlaceholderRemoved ==
  [][/\ \A i \in 1..Len(messagesContainer) :
          LET e == messagesContainer[i] IN
          /\ ~Placeholder(e) => \E k \in 1..Len(messagesContainer') : messagesContainer'[k] = e
          /\ ~Kept(e) =>
               \E f \in 1..Len(flows) :
                 /\ StreamEnd(f)
                 /\ flows[f].el = e.id
                 /\ Classify(Completed(f)) = "Request"
     /\ IsPrefix(Ids(SelectSeq(messagesContainer, Kept)), Ids(messagesContainer'))
     /\ Len(SelectSeq(messagesContainer, Kept)) >= Len(messagesContainer) - 1]_vars

C30_Witness ==
  /\ Len(messagesContainer) = 5
  /\ Ids(messagesContainer) = <<1, 3, 4, 5, 6>>
  /\ messagesContainer[1].class = "user"
  /\ messagesContainer[2].textContent = <<"Using tool: doAction...">>
  /\ messagesContainer[3].textContent = <<"Error executing tool \"doAction\".">>
  /\ messagesContainer[4].class = "user"
  /\ messagesContainer[5].textContent = <<"Echo", OPEN>>
  /\ \A f \in 1..Len(flows) : flows[f].pc = "done"

---------------------------------------------------------------------------
(* The system turn, the re-submission and overlapping streams.             *)

\* the step registers a tool whose name is new
Registers(tool) ==
  registerTool(tool) /\ \A i \in 1..Len(tools) : tools[i].name # tool.name

(* C31: the system turn of the history is fixed by the first submission    *)
(* that reaches the backend: a tool registered later shows in what the     *)
(* systemPrompt getter returns and not in the system turn, and every later *)
(* streamMessage call is given the system turn the first call was given.   *)
C31_SystemTurnFixed ==
  [][/\ messages # <<>> => messages'[1] = messages[1]
     /\ \A i \in 1..Len(calls') : calls'[i].messages[1] = calls'[1].messages[1]
     /\ \A tool \in ToolCatalog :
          (Registers(tool) /\ messages # <<>>) =>
            /\ \E k \in 1..Len(systemPrompt') : systemPrompt'[k] = NameTag(tool.name)
            /\ \A k \in 1..Len(messages'[1].content) :
                 messages'[1].content[k] # NameTag(tool.name)]_vars

C31_Witness ==
  /\ Len(calls) = 2
  /\ calls[1].flow # calls[2].flow
  /\ Len(tools) = 2
  /\ Len(calls[2].messages[1].content) = 11
  /\ calls[2].messages[1].content[4] = "<name>doQuery</name>"
  /\ \E k \in 1..Len(systemPrompt) : systemPrompt[k] = "<name>doAction</name>"
  /\ Len(calls[1].messages) = 2

(* C32: the re-submission of a query result never shows the tool turn as   *)
(* a chat message and never touches the input field: what the operator     *)
(* typed while the query ran is still in the field when the re-submission  *)
(* has started.                                                            *)
C32_ResubmissionSilent ==
  [][\A f \in 1..Len(flows) : \A r \in AllResults : \A field \in Fields :
       (ExecuteResolved(f, r, field) /\ tools[flows[f].tool].type = "Query") =>
         /\ inputValue' = field
         /\ \A i \in 1..Len(messagesContainer') : messagesContainer'[i].class # "tool"]_vars

(* C33: when two submits overlap, each stream is aggregated on its own: a  *)
(* fragment of one stream changes the running total and the element of     *)
(* that invocation alone, so the running total and the final text of each  *)
(* turn are made of its own fragments in the order of arrival, however the *)
(* fragments of the two streams interleave.                                *)
C33_IndependentStreams ==
  [][\A f \in 1..Len(flows) : \A g \in 1..Len(flows) :
       (f # g /\ flows[f].pc = "awaiting" /\ flows[g].pc = "awaiting") =>
         /\ flows[f].el # flows[g].el
         /\ ElementOf(flows[g].el).textContent = Completed(g)
         /\ \A chunk \in NextChunks(Completed(f)) :
              Fragment(f, chunk) =>
                /\ flows'[f].fullResponse = Completed(f) \o chunk
                /\ StreamedElement(f).textContent = Completed(f) \o chunk
                /\ flows'[g] = flows[g]
                /\ StreamedElement(g) = ElementOf(flows[g].el)
         /\ (StreamEnd(f) /\ Classify(Completed(f)) = "Plain") =>
              /\ Last(messages').content = Completed(f)
              /\ flows'[g] = flows[g]
              /\ StreamedElement(g) = ElementOf(flows[g].el)]_vars

C33_Witness ==
  /\ Len(flows) = 2
  /\ flows[1].pc = "done"
  /\ flows[2].pc = "awaiting"
  /\ flows[2].fullResponse = <<OPEN, WS, JQuery>>
  /\ ElementOf(flows[2].el).textContent = <<OPEN, WS, JQuery>>
  /\ Len(messages) = 4
  /\ messages[3].role = "user"
  /\ messages[4] = [role |-> "assistant", content |-> <<"Echo", OPEN>>]
  /\ messagesContainer[2].textContent = <<"Echo", OPEN>>

\* the first payload decodes to an object that has the keys toolUse and
\* toolName
HasBothKeys(text) ==
  /\ HasPayload(text)
  /\ JSONparse(FirstPayload(text)).ok
  /\ JSONparse(FirstPayload(text)).value.type = "object"
  /\ {"toolUse", "toolName"} \subseteq JSONparse(FirstPayload(text)).value.keys

(* C34: a response is a request as soon as its decoded payload is an       *)
(* object with the keys toolUse and toolName, whatever their values and    *)
(* whatever else it holds: when toolName names a registered tool, that     *)
(* tool is executed, with toolUse set to false too.                        *)
C34_KeysDecide ==
  [][\A f \in 1..Len(flows) :
       (/\ StreamEnd(f)
        /\ HasBothKeys(Completed(f))
        /\ \E i \in 1..Len(tools) :
             tools[i].name = JSONparse(FirstPayload(Completed(f))).value.toolName) =>
         /\ Len(execs') = Len(execs) + 1
         /\ Last(execs').tool.name = JSONparse(FirstPayload(Completed(f))).value.toolName]_vars

(* C36: a response that has both delimiters, the closing one only before   *)
(* the first opening one, is Plain: the whole text is appended as an       *)
(* assistant turn and stays on display, and no tool-error notice is shown. *)
C36_CloseBeforeOpen ==
  [][\A f \in 1..Len(flows) :
       (/\ StreamEnd(f)
        /\ includes(Completed(f), OPEN)
        /\ includes(Completed(f), CLOSE)
        /\ ~HasPayload(Completed(f))) =>
         /\ messages' = Append(messages, [role |-> "assistant", content |-> Completed(f)])
         /\ messagesContainer' = messagesContainer
         /\ StreamedElement(f).textContent = Completed(f)
         /\ ~StreamedElement(f).toolError
         /\ console' = ""
         /\ execs' = execs
         /\ calls' = calls
         /\ Returned(f)]_vars

C36_Witness ==
  /\ aiBackend = probeBackend
  /\ messages # <<>>
  /\ Last(messages) = [role |-> "assistant", content |-> <<CLOSE, "Sure", OPEN>>]
  /\ Shown(<<CLOSE, "Sure", OPEN>>)
  /\ \A i \in 1..Len(messagesContainer) : ~messagesContainer[i].toolError
  /\ \A f \in 1..Len(flows) : flows[f].pc = "done"

(* C35: the content re-submitted after a successful query is never empty:  *)
(* it is the <tool-response> envelope around the encoded result, whatever  *)
(* the result, the empty string included; so the re-submission is never    *)
(* dropped as empty, and always appends the tool turn and makes a          *)
(* streamMessage call.                                                     *)
C35_EnvelopeNeverEmpty ==
  [][\A f \in 1..Len(flows) : \A r \in AllResults : \A field \in Fields :
       (ExecuteResolved(f, r, field) /\ tools[flows[f].tool].type = "Query") =>
         /\ Len(messages') = Len(messages) + 1
         /\ Last(messages').role = "tool"
         /\ Last(messages').content = <<"<tool-response>\"" \o r \o "\"</tool-response>">>
         /\ \E i \in 1..Len(Last(messages').content) : Last(messages').content[i] # ""
         /\ Len(calls') = Len(calls) + 1
         /\ Last(calls').flow = f
         /\ flows'[f].pc = "awaiting"]_vars

C35_Witness ==
  /\ Len(flows) = 1
  /\ flows[1].pc = "awaiting"
  /\ Len(calls) = 2
  /\ Len(messages) = 3
  /\ messages[3] = [role |-> "tool", content |-> <<"<tool-response>\"\"</tool-response>">>]
  /\ calls[2].messages = messages

---------------------------------------------------------------------------
(* The reasoning separator.                                                *)

\* the text the separator has accumulated once it has taken in a response
Accumulated(response) == completeResponse \o response.choices[1].content

\* C37: over any sequence of chunks, after each call on a response with at
\* least one choice the returned isReasoning is true exactly when the text
\* accumulated since the last reset contains '<think>' and does not contain
\* '</think>'; whenever it is true the returned text is 'thinking...', and
\* whenever it is false and the chunk did not complete '</think>' the
\* returned text is the content of the chunk, unchanged.
C37_ReasoningFlag ==
  [][\A response \in DeepSeekResponses :
       (processChatResponse(response) /\ Len(response.choices) > 0) =>
         /\ call'.isReasoning =
              (/\ includesText(Accumulated(response), THINK)
               /\ ~includesText(Accumulated(response), ENDTHINK))
         /\ call'.isReasoning => call'.text = <<"thinking...">>
         /\ (~call'.isReasoning /\ ~includesText(Accumulated(response), ENDTHINK)) =>
              call'.text = response.choices[1].content]_sepVars

\* '<think>' arrived in two chunks, the second of them has just been taken in
C37_Witness ==
  /\ call.given = <<"ink>">>
  /\ completeResponse = <<"Hi", "<th", "ink>">>
  /\ call.isReasoning
  /\ call.text = <<"thinking...">>

\* C38: the chunk on which the accumulated text comes to contain '</think>'
\* returns isReasoning false with empty text, whatever follows the tag in
\* that chunk, and empties the accumulator; from then on a chunk that
\* completes neither tag is returned as it came.
C38_ReasoningEnds ==
  [][\A response \in DeepSeekResponses :
       (processChatResponse(response) /\ Len(response.choices) > 0) =>
         /\ includesText(Accumulated(response), ENDTHINK) =>
              /\ call'.isReasoning = FALSE
              /\ call'.text = <<>>
              /\ isReasoning' = FALSE
              /\ completeResponse' = <<>>
         /\ (/\ ~isReasoning
             /\ ~includesText(Accumulated(response), THINK)
             /\ ~includesText(Accumulated(response), ENDTHINK)) =>
              /\ call'.isReasoning = FALSE
              /\ call'.text = response.choices[1].content]_sepVars

\* a chunk has closed the reasoning and its answer text was dropped with it
C38_Witness ==
  /\ call.given = <<"</th", "ink>", "Hi">>
  /\ call.text = <<>>
  /\ ~call.isReasoning
  /\ ~isReasoning
  /\ completeResponse = <<>>

\* C39: a response without choices returns empty text and the flag as it
\* stands, and changes neither the flag nor the accumulated text.
C39_NoChoices ==
  [][\A response \in DeepSeekResponses :
       (processChatResponse(response) /\ Len(response.choices) = 0) =>
         /\ call'.text = <<>>
         /\ call'.isReasoning = isReasoning
         /\ isReasoning' = isReasoning
         /\ completeResponse' = completeResponse]_sepVars

\* a response without choices arrived in the middle of the reasoning
C39_Witness ==
  /\ isReasoning
  /\ completeResponse = <<"<th", "ink>", "Hi">>
  /\ call.given = <<>>
  /\ call.isReasoning
  /\ call.text = <<>>

====
